---------------------------- MODULE Spec2Model ----------------------------
(* Model of the curling slide analyzer (src/script.js): the recording      *)
(* lifecycle of CurlingSlideAnalyzer, its auto-stop detector, the trimming, *)
(* velocity and metric extraction run at stop, and the throw list kept in   *)
(* localStorage; and of the comparison page (src/unnamed/part_000): the     *)
(* throw list TrainingSessionAnalyzer loads and the session summary.        *)
(*                                                                          *)
(* Units.  Every quantity is an integer in fixed point:                     *)
(*   accelerations   0.1 m/s^2        timestamps      0.1 s                 *)
(*   angular rates   1 deg/s          velocities      0.005 m/s             *)
(* so that (ax[i] + ax[i-1]) / 2 * dt is exact.  A magnitude                *)
(* sqrt(x^2+y^2+z^2) is compared with a threshold T by comparing the sum of *)
(* squares with T*T; both sides are non-negative.                           *)
EXTENDS Integers, Sequences, FiniteSets, TLC

VARIABLES
    isRecording,        \* this.isRecording
    acceleration,       \* this.sensorData.acceleration, a sequence of [x, y, z, t]
    gyroscope,          \* this.sensorData.gyroscope, a sequence of [x, y, z, t]
    velocity,           \* this.sensorData.velocity, a sequence of [x, t]
    autoStopBuffer,     \* this.autoStopBuffer, a sequence of [acceleration, timestamp]
    lastAutoStopCheck,  \* this.lastAutoStopCheck
    handlerActive,      \* this.deviceMotionHandler is a registered devicemotion listener
    staleHandlers,      \* listeners still registered whose reference was overwritten
    pendingStarts,      \* startRecording calls suspended at await requestPermissions()
    elapsed,            \* Date.now() - this.startTime, in 0.1 s
    sessionThrows,      \* localStorage 'curling_session_throws'
    latestThrow,        \* localStorage 'curling_latest_throw'
    currentSession,     \* localStorage 'curling_current_session'
    saves,              \* clock read by Date.now() for ids: number of records saved
    autoStops,          \* history: auto-stop signals emitted in the current recording
    autoStopAt,         \* history: sample timestamp at which auto-stop last fired, or -1
    lateAppends,        \* history: samples appended after stopRecording ran, this recording
    stopCalls,          \* history: stopRecording invocations since the last start
    clicks,             \* history: clicks on the record button
    device,             \* the sensors of the device: which fields its events carry
    lastTrim,           \* history: the capture last trimmed and the indices logged for it
    events,             \* history: devicemotion events delivered
    stabilityIndex,     \* the series calculateStabilityIndex returned for the velocity chart
    throws,             \* comparison page: this.throws of TrainingSessionAnalyzer
    summary,            \* comparison page: the session summary shown by updateQuickStats
    exported,           \* comparison page: the data of the last export, or Null
    pageOpen,           \* comparison page: a TrainingSessionAnalyzer has been constructed
    quickStatsDisplay,  \* comparison page: style.display of the quickStats section
    lastDelete,         \* history: the index and the list of the last confirmed deleteThrow
    storageEvents       \* storage events for 'curling_session_throws' queued for the page

vars == <<isRecording, acceleration, gyroscope, velocity, autoStopBuffer,
          lastAutoStopCheck, handlerActive, staleHandlers, pendingStarts, elapsed,
          sessionThrows, latestThrow, currentSession, saves, autoStops, autoStopAt,
          lateAppends, stopCalls, clicks, events, device, lastTrim,
          stabilityIndex, throws, summary, exported, pageOpen,
          quickStatsDisplay, lastDelete, storageEvents>>

----------------------------------------------------------------------------
(* Program constants *)

autoStopThreshold == 15
autoStopDuration == 30
autoStopCheckInterval == 5
GracePeriod == 100
accelThreshold == 20
PreRoll == 5
settlePeriod == 20
SettleSkip == 30
SettleThreshold == 15
SettleKeep == 10
PushoffDivisor == 5
windowSize == 5
TrendWindow == 3
TrendMargin == 5
CVWeight == 10

(* Bounds of the model *)

MaxEvents == 7
MaxElapsed == 135
MaxClicks == 2
MaxStopCalls == 2
MaxSparseElapsed == 175
MaxLead == 7
MaxTail == 5
MaxMetricLen == 2
MaxThrows == 4
MaxSamples == 8
MaxDecelLen == 6

\* lastTrim before any capture was trimmed
NoTrim == [startIndex |-> 0, endIndex |-> -1, acceleration |-> <<>>, gyroscope |-> <<>>]

Null == [kind |-> "null"]

\* The {} calculateSessionSummary returns for no throws; also the quick stats
\* before any summary was written to them
NoSummary == [kind |-> "empty"]
\* lastDelete before any throw was deleted
NoDelete == [index |-> -1, before |-> <<>>]
NegInfinity == [kind |-> "-Infinity"]
Num(n) == [kind |-> "num", val |-> n]

Max2(a, b) == IF a >= b THEN a ELSE b
Min2(a, b) == IF a <= b THEN a ELSE b
Abs(n) == IF n < 0 THEN -n ELSE n

----------------------------------------------------------------------------
(* Pure helpers *)

\* x^2 + y^2 + z^2 of one acceleration sample: the square of totalAccel.
MagSq(s) == s.x * s.x + s.y * s.y + s.z * s.z

\* totalAccel > threshold
ExceedsOrEquals(m2, threshold) == m2 >= threshold * threshold
Exceeds(m2, threshold) == m2 > threshold * threshold

\* totalAccel < threshold
Below(m2, threshold) == m2 < threshold * threshold

\* Array.prototype.slice(from, to) on a sequence, with 0-based from and
\* exclusive to, both >= 0; to is clamped to the length.
Slice(s, from, to) == SubSeq(s, from + 1, Min2(to, Len(s)))

\* hasData()
HasData(w) == Len(w.acceleration) > 0 \/ Len(w.gyroscope) > 0

----------------------------------------------------------------------------
(* trimToActualThrow, src/script.js 395-459 *)

\* The 0-based indices whose magnitude exceeds accelThreshold.
SpikeIndices(accel) ==
    {i \in 0..(Len(accel) - 1) : Exceeds(MagSq(accel[i + 1]), accelThreshold)}

SetMin(S) == CHOOSE m \in S : \A n \in S : m <= n

\* The first loop: startIndex stays 0 unless a sample exceeds the threshold,
\* and the loop breaks at the first one.
StartIndex(accel) ==
    IF SpikeIndices(accel) = {} THEN 0
    ELSE Max2(0, SetMin(SpikeIndices(accel)) - PreRoll)

\* The second loop with a calmCount that motion does not reset
RECURSIVE EndScanNoReset(_, _, _)
EndScanNoReset(accel, i, calm) ==
    IF i >= Len(accel) THEN Len(accel) - 1
    ELSE IF Below(MagSq(accel[i + 1]), SettleThreshold)
         THEN IF calm + 1 >= settlePeriod
              THEN i - settlePeriod + SettleKeep
              ELSE EndScanNoReset(accel, i + 1, calm + 1)
         ELSE EndScanNoReset(accel, i + 1, calm)

\* The second loop from index i with calmCount = calm; the value is endIndex.
RECURSIVE EndScan(_, _, _)
EndScan(accel, i, calm) ==
    IF i >= Len(accel) THEN Len(accel) - 1
    ELSE IF Below(MagSq(accel[i + 1]), SettleThreshold)
         THEN IF calm + 1 >= settlePeriod
              THEN i - settlePeriod + SettleKeep
              ELSE EndScan(accel, i + 1, calm + 1)
         ELSE EndScan(accel, i + 1, 0)

EndIndexNoSkip(accel, startIndex) == EndScan(accel, 0, 0)
EndIndex(accel, startIndex) == EndScan(accel, startIndex + SettleSkip, 0)

\* map(t => t - startTime) over a sequence of samples
Rebase(s, startTime) == [i \in 1..Len(s) |-> [s[i] EXCEPT !.t = @ - startTime]]

TrimToActualThrow(w) ==
    IF Len(w.acceleration) = 0 THEN w
    ELSE LET startIndex == StartIndex(w.acceleration)
             endIndex == EndIndex(w.acceleration, startIndex)
             cut == Slice(w.acceleration, startIndex, endIndex + 1)
             startTime == cut[1].t
         IN [w EXCEPT
               !.lastTrim = [startIndex |-> startIndex, endIndex |-> endIndex,
                             acceleration |-> w.acceleration,
                             gyroscope |-> w.gyroscope],
               !.acceleration = Rebase(cut, startTime),
               !.gyroscope =
                   IF Len(w.gyroscope) > 0
                   THEN Rebase(Slice(w.gyroscope, startIndex, endIndex + 1), startTime)
                   ELSE w.gyroscope]

----------------------------------------------------------------------------
(* calculateVelocity, src/script.js 461-478 *)

\* The loop from index i (0-based) with the series built so far.
RECURSIVE VelocityLoopClamped(_, _, _)
VelocityLoopClamped(accel, i, out) ==
    IF i >= Len(accel) THEN out
    ELSE LET dt == accel[i + 1].t - accel[i].t
             prevVel == out[Len(out)].x
             step == (accel[i + 1].x + accel[i].x) * dt
         IN VelocityLoopClamped(accel, i + 1,
                Append(out, [x |-> Max2(0, prevVel + step), t |-> accel[i + 1].t]))

\* The loop from index i (0-based) with the series built so far.
RECURSIVE VelocityLoop(_, _, _)
VelocityLoop(accel, i, out) ==
    IF i >= Len(accel) THEN out
    ELSE LET dt == accel[i + 1].t - accel[i].t
             prevVel == out[Len(out)].x
             \* avgAccel * dt in units of 0.005 m/s: (a + b) / 2 * dt, doubled
             step == (accel[i + 1].x + accel[i].x) * dt
         IN VelocityLoop(accel, i + 1,
                         Append(out, [x |-> prevVel + step, t |-> accel[i + 1].t]))

CalculateVelocity(accel) ==
    VelocityLoop(accel, 1,
                 <<[x |-> 0, t |-> IF Len(accel) > 0 THEN accel[1].t ELSE 0]>>)

\* processData()
ProcessData(w) ==
    IF ~HasData(w) THEN w
    ELSE LET t == TrimToActualThrow(w)
         IN [t EXCEPT !.velocity = CalculateVelocity(t.acceleration)]

----------------------------------------------------------------------------
(* calculateAnalysisMetrics, src/script.js 790-852 *)

RECURSIVE SeqSum(_)
SeqSum(s) == IF s = <<>> THEN 0 ELSE s[1] + SeqSum(Tail(s))

\* Math.max(...data.map(Math.abs)): -Infinity for an empty array.
MaxAbs(s) ==
    IF s = <<>> THEN NegInfinity
    ELSE Num(CHOOSE m \in {Abs(s[i]) : i \in 1..Len(s)} :
                 \A i \in 1..Len(s) : Abs(s[i]) <= m)

Xs(s) == [i \in 1..Len(s) |-> s[i].x]

\* Math.floor(accel.x.length * 0.2)
PushoffPeriod(n) == n \div PushoffDivisor

\* The mean taken over the whole series, the push-off window included
DecelRateWhole(xs) ==
    LET negativeAccel == SelectSeq(xs, LAMBDA a : a < 0)
    IN IF Len(negativeAccel) > 0
       THEN [num |-> Abs(SeqSum(negativeAccel)), den |-> Len(negativeAccel)]
       ELSE [num |-> 0, den |-> 1]

\* Mean of the strictly negative samples after the push-off window, as the
\* fraction num/den of its absolute value (0/1 when there is none).
DecelRate(xs) ==
    LET slideData == Slice(xs, PushoffPeriod(Len(xs)), Len(xs))
        negativeAccel == SelectSeq(slideData, LAMBDA a : a < 0)
    IN IF Len(negativeAccel) > 0
       THEN [num |-> Abs(SeqSum(negativeAccel)), den |-> Len(negativeAccel)]
       ELSE [num |-> 0, den |-> 1]

\* The largest r in lo..hi with r * r <= n, by bisection
RECURSIVE SqrtBetween(_, _, _)
SqrtBetween(n, lo, hi) ==
    IF lo >= hi THEN lo
    ELSE LET mid == (lo + hi + 1) \div 2
         IN IF mid * mid <= n THEN SqrtBetween(n, mid, hi)
            ELSE SqrtBetween(n, lo, mid - 1)

\* Math.sqrt rounded down to an integer; exact on perfect squares.  46340 is
\* the largest root of a 32-bit square.
ISqrt(n) == SqrtBetween(n, 0, Min2(n, 46340))

\* sqrt(pitch^2 + roll^2) per angular-rate sample
PitchRoll(gyro) ==
    [i \in 1..Len(gyro) |-> ISqrt(gyro[i].x * gyro[i].x + gyro[i].y * gyro[i].y)]

\* calculateVariance(data) as the fraction num/den (population variance):
\* sum((v - mean)^2) / n = (n * sum(v^2) - sum(v)^2) / n^2.
CalculateVariance(data) ==
    IF Len(data) = 0 THEN [num |-> 0, den |-> 1]
    ELSE LET n == Len(data)
             s1 == SeqSum(data)
             s2 == SeqSum([i \in 1..n |-> data[i] * data[i]])
         IN [num |-> n * s2 - s1 * s1, den |-> n * n]

\* floor(10^(e/20) * 1000) for e = 0..100
Pow10Table == <<
    1000, 1122, 1258, 1412, 1584, 1778, 1995, 2238,
    2511, 2818, 3162, 3548, 3981, 4466, 5011, 5623,
    6309, 7079, 7943, 8912, 10000, 11220, 12589, 14125,
    15848, 17782, 19952, 22387, 25118, 28183, 31622, 35481,
    39810, 44668, 50118, 56234, 63095, 70794, 79432, 89125,
    100000, 112201, 125892, 141253, 158489, 177827, 199526, 223872,
    251188, 281838, 316227, 354813, 398107, 446683, 501187, 562341,
    630957, 707945, 794328, 891250, 1000000, 1122018, 1258925, 1412537,
    1584893, 1778279, 1995262, 2238721, 2511886, 2818382, 3162277, 3548133,
    3981071, 4466835, 5011872, 5623413, 6309573, 7079457, 7943282, 8912509,
    10000000, 11220184, 12589254, 14125375, 15848931, 17782794, 19952623, 22387211,
    25118864, 28183829, 31622776, 35481338, 39810717, 44668359, 50118723, 56234132,
    63095734, 70794578, 79432823, 89125093, 100000000
>>

\* The least e in lo..hi - 1 with variance + 1 <= 10^(e/20), or hi when there
\* is none, by bisection: the table is increasing, so the exponents that
\* satisfy the inequality form an upper segment.  (variance + 1) * 1000 is
\* rounded up to an integer, which leaves the comparison with the integer
\* table entry unchanged and keeps the products within 32 bits.
RECURSIVE ScoreLossBetween(_, _, _)
ScoreLossBetween(v, lo, hi) ==
    IF lo >= hi THEN lo
    ELSE LET mid == (lo + hi) \div 2
         IN IF ((v.num + v.den) * 1000 + v.den - 1) \div v.den <= Pow10Table[mid + 1]
            THEN ScoreLossBetween(v, lo, mid)
            ELSE ScoreLossBetween(v, mid + 1, hi)

\* The least e in from..100 with variance + 1 <= 10^(e/20): log10(variance + 1)
\* * 20 rounded up, or 101 when it is above 100.
ScoreLoss(v, e) == IF e > 100 THEN e ELSE ScoreLossBetween(v, e, 101)

\* Math.max(0, Math.min(100, 100 - Math.log10(variance + 1) * 20)), rounded
\* down to an integer.
StabilityScoreUnclamped(v) == 100 - ScoreLoss(v, 0)
StabilityScore(v) == Max2(0, Min2(100, 100 - ScoreLoss(v, 0)))

\* The classification of avgDecel = |decelRate| = d.num / d.den (0.1 m/s^2).
GlideEfficiencyInclusive(d) ==
    IF d.num >= 20 * d.den THEN "Poor (High Drag)"
    ELSE IF 10 * d.num <= 5 * 10 * d.den THEN "Excellent"
    ELSE IF d.num <= 10 * d.den THEN "Very Good"
    ELSE "Good"
GlideEfficiency(d) ==
    IF d.num > 20 * d.den THEN "Poor (High Drag)"
    ELSE IF 10 * d.num < 5 * 10 * d.den THEN "Excellent"
    ELSE IF d.num < 10 * d.den THEN "Very Good"
    ELSE "Good"

CalculateAnalysisMetrics(w) ==
    LET accel == w.acceleration
        xs == Xs(accel)
        decel == DecelRate(xs)
    IN [pushoffStrength |-> MaxAbs(Slice(xs, 0, PushoffPeriod(Len(xs)))),
        peakVelocity |-> MaxAbs(Xs(w.velocity)),
        slideDuration |-> IF Len(accel) > 0 THEN accel[Len(accel)].t - accel[1].t ELSE 0,
        decelRate |-> decel,
        stabilityScore |-> StabilityScore(CalculateVariance(PitchRoll(w.gyroscope))),
        glideEfficiency |-> GlideEfficiency(decel)]

----------------------------------------------------------------------------
(* The analyzer object, the listeners and localStorage as one record, so    *)
(* that a method is an operator from records to records.                    *)

World ==
    [isRecording |-> isRecording, acceleration |-> acceleration,
     gyroscope |-> gyroscope, velocity |-> velocity,
     autoStopBuffer |-> autoStopBuffer, lastAutoStopCheck |-> lastAutoStopCheck,
     handlerActive |-> handlerActive, staleHandlers |-> staleHandlers,
     elapsed |-> elapsed, sessionThrows |-> sessionThrows,
     latestThrow |-> latestThrow, currentSession |-> currentSession,
     saves |-> saves, autoStops |-> autoStops, autoStopAt |-> autoStopAt,
     lateAppends |-> lateAppends, stopCalls |-> stopCalls, lastTrim |-> lastTrim,
     stabilityIndex |-> stabilityIndex, pageOpen |-> pageOpen,
     storageEvents |-> storageEvents]

Install(w) ==
    /\ isRecording' = w.isRecording
    /\ acceleration' = w.acceleration
    /\ gyroscope' = w.gyroscope
    /\ velocity' = w.velocity
    /\ autoStopBuffer' = w.autoStopBuffer
    /\ lastAutoStopCheck' = w.lastAutoStopCheck
    /\ handlerActive' = w.handlerActive
    /\ staleHandlers' = w.staleHandlers
    /\ elapsed' = w.elapsed
    /\ sessionThrows' = w.sessionThrows
    /\ latestThrow' = w.latestThrow
    /\ currentSession' = w.currentSession
    /\ saves' = w.saves
    /\ autoStops' = w.autoStops
    /\ autoStopAt' = w.autoStopAt
    /\ lateAppends' = w.lateAppends
    /\ stopCalls' = w.stopCalls
    /\ lastTrim' = w.lastTrim
    /\ stabilityIndex' = w.stabilityIndex
    /\ storageEvents' = w.storageEvents

----------------------------------------------------------------------------
(* calculateStabilityIndex, src/script.js 730-754 *)

\* Math.floor(windowSize / 2)
HalfWindow == windowSize \div 2

\* gyro.x[j] || 0 and gyro.y[j] || 0: an index outside the array reads as 0.
GyroAt(gyro, j) ==
    IF j >= 0 /\ j < Len(gyro) THEN gyro[j + 1] ELSE [x |-> 0, y |-> 0, z |-> 0, t |-> 0]

\* The inner loop from j to end - 1; acc holds the indices read so far, rmsSum
\* and count.
RECURSIVE WindowLoop(_, _, _, _)
WindowLoop(gyro, j, end, acc) ==
    IF j >= end THEN acc
    ELSE WindowLoop(gyro, j + 1, end,
            [read |-> Append(acc.read, j),
             rmsSum |-> acc.rmsSum + GyroAt(gyro, j).x * GyroAt(gyro, j).x
                                   + GyroAt(gyro, j).y * GyroAt(gyro, j).y,
             count |-> acc.count + 1])

\* One pass of the outer loop, for the 0-based index i.  The value pushed is
\* sqrt(rmsSum / count).
StabilityAtUnclamped(gyro, i) ==
    WindowLoop(gyro, i - HalfWindow, i + HalfWindow + 1,
               [read |-> <<>>, rmsSum |-> 0, count |-> 0])
StabilityAt(gyro, i) ==
    LET start == Max2(0, i - HalfWindow)
        end == Min2(Len(gyro), i + HalfWindow + 1)
    IN WindowLoop(gyro, start, end, [read |-> <<>>, rmsSum |-> 0, count |-> 0])

CalculateStabilityIndex(gyro) == [i \in 1..Len(gyro) |-> StabilityAt(gyro, i - 1)]

\* createCharts(): the velocity chart takes the stability index.
CreateCharts(w) ==
    IF ~HasData(w) THEN w
    ELSE [w EXCEPT !.stabilityIndex = CalculateStabilityIndex(w.gyroscope)]

----------------------------------------------------------------------------
(* saveThrowToSession, src/script.js 854-918 *)

\* JSON.stringify then JSON.parse of a number: a non-finite number becomes null.
JsonNumber(v) == IF v.kind = "num" THEN v ELSE Null

\* The round trip of one throw record through localStorage.
JsonThrow(t) ==
    [t EXCEPT !.pushoffStrength = JsonNumber(@), !.peakVelocity = JsonNumber(@)]

JsonThrows(ts) == [i \in 1..Len(ts) |-> JsonThrow(ts[i])]

\* throws.push(throwData) on the array parsed from storage (stored)
PushThrowReplacing(stored, throwData) == <<throwData>>
PushThrow(stored, throwData) == Append(stored, throwData)

SaveThrowToSession(w, analysis) ==
    LET now == w.saves + 1
        session == IF w.currentSession = Null
                   THEN [kind |-> "session", id |-> now]
                   ELSE w.currentSession
        throwData == [id |-> now, sessionId |-> session.id,
                      pushoffStrength |-> analysis.pushoffStrength,
                      peakVelocity |-> analysis.peakVelocity,
                      slideDuration |-> analysis.slideDuration,
                      decelRate |-> analysis.decelRate,
                      stabilityScore |-> analysis.stabilityScore,
                      glideEfficiency |-> analysis.glideEfficiency]
    IN [w EXCEPT
          !.currentSession = session,
          !.sessionThrows = JsonThrows(PushThrow(w.sessionThrows, throwData)),
          !.latestThrow = JsonThrow(throwData),
          !.saves = now,
          \* setItem queues a storage event for every other page of the origin
          !.storageEvents = IF w.pageOpen THEN @ + 1 ELSE @]

\* showAnalysis()
ShowAnalysis(w) ==
    IF ~HasData(w) THEN w ELSE SaveThrowToSession(w, CalculateAnalysisMetrics(w))

----------------------------------------------------------------------------
(* stopRecording, src/script.js 146-166 *)

\* stopSensorListening(): removes the listener this.deviceMotionHandler names.
StopSensorListening(w) == [w EXCEPT !.handlerActive = FALSE]

StopRecording(w) ==
    ShowAnalysis(CreateCharts(ProcessData(StopSensorListening(
        [w EXCEPT !.isRecording = FALSE, !.stopCalls = @ + 1]))))

----------------------------------------------------------------------------
(* startSensorListening and the devicemotion handler, src/script.js 168-249 *)

\* The condition under which the handler calls checkAutoStop.
ShouldCheckNoGrace(timestamp, last) == timestamp - last >= autoStopCheckInterval
ShouldCheck(timestamp, last) ==
    timestamp > GracePeriod /\ timestamp - last >= autoStopCheckInterval

\* some(point => point.acceleration < this.autoStopThreshold)
SomeCalm(buffer) ==
    \E i \in 1..Len(buffer) : Below(buffer[i].acceleration, autoStopThreshold)

\* every(point => point.acceleration < this.autoStopThreshold)
AllCalm(buffer) ==
    \A i \in 1..Len(buffer) : Below(buffer[i].acceleration, autoStopThreshold)

\* filter(point => timestamp - point.timestamp <= this.autoStopDuration)
Recent(buffer, timestamp) ==
    SelectSeq(buffer, LAMBDA point : timestamp - point.timestamp <= autoStopDuration)

\* autoStopBuffer.length >= autoStopDuration / autoStopCheckInterval
EnoughData(buffer) == Len(buffer) * autoStopCheckInterval >= autoStopDuration

CheckAutoStop(w, accel, timestamp) ==
    LET pushed == Append(w.autoStopBuffer,
                         [acceleration |-> MagSq(accel), timestamp |-> timestamp])
        w1 == [w EXCEPT !.autoStopBuffer = Recent(pushed, timestamp)]
    IN IF EnoughData(w1.autoStopBuffer) /\ AllCalm(w1.autoStopBuffer)
       THEN [StopRecording(w1) EXCEPT !.autoStops = @ + 1, !.autoStopAt = timestamp]
       ELSE w1

\* The early return of the handler.
HandlerRunsAlways(w) == TRUE
HandlerRuns(w) == w.isRecording

\* The accelerationIncludingGravity branch of the handler.
HandleAcceleration(w, ev, timestamp) ==
    IF ~ev.hasAccel THEN w
    ELSE LET accel == [x |-> ev.ax, y |-> ev.ay, z |-> ev.az, t |-> timestamp]
             w1 == [w EXCEPT !.acceleration = Append(@, accel),
                             !.lateAppends = IF w.isRecording THEN @ ELSE @ + 1]
         IN IF ShouldCheck(timestamp, w1.lastAutoStopCheck)
            THEN [CheckAutoStop(w1, accel, timestamp)
                    EXCEPT !.lastAutoStopCheck = timestamp]
            ELSE w1

\* The rotationRate branch of the handler; the rates arrive in units of
\* pi/180 rad/s, so that * 180 / Math.PI yields the integer degrees stored.
HandleRotation(w, ev, timestamp) ==
    IF ~ev.hasRot THEN w
    ELSE [w EXCEPT
            !.gyroscope = Append(@, [x |-> ev.beta, y |-> ev.gamma,
                                     z |-> ev.alpha, t |-> timestamp]),
            !.lateAppends = IF w.isRecording THEN @ ELSE @ + 1]

\* this.deviceMotionHandler(event)
DeviceMotionHandler(w, ev) ==
    IF ~HandlerRuns(w) THEN w
    ELSE HandleRotation(HandleAcceleration(w, ev, w.elapsed), ev, w.elapsed)

\* dispatch of one devicemotion event to n registered listeners, in turn
RECURSIVE Dispatch(_, _, _)
Dispatch(w, ev, n) ==
    IF n = 0 THEN w ELSE Dispatch(DeviceMotionHandler(w, ev), ev, n - 1)

Listeners(w) == w.staleHandlers + (IF w.handlerActive THEN 1 ELSE 0)

\* clearData(false)
ClearData(w) ==
    [w EXCEPT !.acceleration = <<>>, !.gyroscope = <<>>, !.velocity = <<>>,
              !.stabilityIndex = <<>>]

\* startSensorListening() that leaves this.autoStopBuffer as it finds it
StartSensorListeningKeeping(w) ==
    [w EXCEPT !.lastAutoStopCheck = 0,
              !.staleHandlers = IF w.handlerActive THEN @ + 1 ELSE @,
              !.handlerActive = TRUE]

\* startSensorListening(): a new closure replaces this.deviceMotionHandler and
\* is registered; a closure registered before stays registered.
StartSensorListening(w) ==
    [w EXCEPT !.autoStopBuffer = <<>>,
              !.lastAutoStopCheck = 0,
              !.staleHandlers = IF w.handlerActive THEN @ + 1 ELSE @,
              !.handlerActive = TRUE]

\* startRecording() after await this.requestPermissions() returned true
ResumeStartRecording(w) ==
    LET w1 == [w EXCEPT !.isRecording = TRUE, !.elapsed = 0,
                        !.autoStops = 0, !.autoStopAt = -1,
                        !.lateAppends = 0, !.stopCalls = 0]
    IN StartSensorListening(ClearData(w1))

----------------------------------------------------------------------------
(* Inputs *)

CalmSample == [hasAccel |-> TRUE, ax |-> -10, ay |-> 0, az |-> 0,
               hasRot |-> TRUE, beta |-> 3, gamma |-> 4, alpha |-> 1]
ActiveSample == [hasAccel |-> TRUE, ax |-> 30, ay |-> 0, az |-> 0,
                 hasRot |-> TRUE, beta |-> 6, gamma |-> 8, alpha |-> 0]
RotationOnly == [hasAccel |-> FALSE, ax |-> 0, ay |-> 0, az |-> 0,
                 hasRot |-> TRUE, beta |-> 0, gamma |-> 0, alpha |-> 2]

\* A device without an accelerometer delivers events whose
\* accelerationIncludingGravity is null.
Devices == {"accelerometer and gyroscope", "gyroscope only"}

MotionEvents(d) ==
    IF d = "gyroscope only" THEN {RotationOnly} ELSE {CalmSample, ActiveSample}

\* Time between two devicemotion events, in 0.1 s
Gaps == {5, 105}

----------------------------------------------------------------------------
(* Actions *)

Init ==
    /\ isRecording = FALSE
    /\ acceleration = <<>>
    /\ gyroscope = <<>>
    /\ velocity = <<>>
    /\ autoStopBuffer = <<>>
    /\ lastAutoStopCheck = 0
    /\ handlerActive = FALSE
    /\ staleHandlers = 0
    /\ pendingStarts = 0
    /\ elapsed = 0
    /\ sessionThrows = <<>>
    /\ latestThrow = Null
    /\ currentSession = Null
    /\ saves = 0
    /\ autoStops = 0
    /\ autoStopAt = -1
    /\ lateAppends = 0
    /\ stopCalls = 0
    /\ clicks = 0
    /\ events = 0
    /\ device \in Devices
    /\ lastTrim = NoTrim
    /\ stabilityIndex = <<>>
    /\ throws = <<>>
    /\ summary = NoSummary
    /\ exported = Null
    /\ pageOpen = FALSE
    /\ quickStatsDisplay = "none"
    /\ lastDelete = NoDelete
    /\ storageEvents = 0

\* The record button's click listener while recording: stopRecording().
ClickStop ==
    /\ isRecording
    /\ clicks < MaxClicks
    /\ clicks' = clicks + 1
    /\ Install(StopRecording(World))
    /\ UNCHANGED <<pendingStarts, events, device,
                   throws, summary, exported, pageOpen,
                   quickStatsDisplay, lastDelete>>

\* The click listener while not recording: startRecording() runs up to its
\* await and suspends.
ClickStart ==
    /\ ~isRecording
    /\ clicks < MaxClicks
    /\ clicks' = clicks + 1
    /\ pendingStarts' = pendingStarts + 1
    /\ UNCHANGED <<isRecording, acceleration, gyroscope, velocity, autoStopBuffer,
                   lastAutoStopCheck, handlerActive, staleHandlers, elapsed,
                   sessionThrows, latestThrow, currentSession, saves, autoStops,
                   autoStopAt, lateAppends, stopCalls, events, device, lastTrim,
                   stabilityIndex, throws, summary, exported, pageOpen,
                   quickStatsDisplay, lastDelete, storageEvents>>

\* requestPermissions() resolves and the suspended startRecording continues.
PermissionResolved(granted) ==
    /\ pendingStarts > 0
    /\ pendingStarts' = pendingStarts - 1
    /\ IF granted THEN Install(ResumeStartRecording(World))
       ELSE UNCHANGED <<isRecording, acceleration, gyroscope, velocity,
                        autoStopBuffer, lastAutoStopCheck, handlerActive,
                        staleHandlers, elapsed, sessionThrows, latestThrow,
                        currentSession, saves, autoStops, autoStopAt, lateAppends,
                        stopCalls, lastTrim, stabilityIndex, storageEvents>>
    /\ UNCHANGED <<clicks, events, device,
                   throws, summary, exported, pageOpen,
                   quickStatsDisplay, lastDelete>>

\* One devicemotion event, gap after the previous one, delivered to every
\* registered listener.
Motion(gap, ev) ==
    /\ Listeners(World) > 0
    /\ events' = events + 1
    /\ Install(Dispatch([World EXCEPT !.elapsed = elapsed + gap], ev, Listeners(World)))
    /\ UNCHANGED <<pendingStarts, clicks, device,
                   throws, summary, exported, pageOpen,
                   quickStatsDisplay, lastDelete>>

DeviceMotion(gap, ev) ==
    /\ events < MaxEvents
    /\ elapsed + gap <= MaxElapsed
    /\ Motion(gap, ev)

\* The visibilitychange listener when the page is hidden while recording.
VisibilityHidden ==
    /\ isRecording
    /\ Install(StopRecording(World))
    /\ UNCHANGED <<pendingStarts, clicks, events, device,
                   throws, summary, exported, pageOpen,
                   quickStatsDisplay, lastDelete>>

Next ==
    \/ ClickStop
    \/ ClickStart
    \/ \E granted \in BOOLEAN : PermissionResolved(granted)
    \/ \E gap \in Gaps, ev \in MotionEvents(device) : DeviceMotion(gap, ev)
    \/ VisibilityHidden

Spec == Init /\ [][Next]_vars

----------------------------------------------------------------------------
(* The analyzer is published as window.curlingAnalyzer, so stopRecording()  *)
(* can also be invoked directly, on a recording that is already stopped.    *)

StopRecordingCall ==
    /\ ~isRecording
    /\ stopCalls >= 1
    /\ stopCalls < MaxStopCalls
    /\ Install(StopRecording(World))
    /\ UNCHANGED <<pendingStarts, clicks, events, device,
                   throws, summary, exported, pageOpen,
                   quickStatsDisplay, lastDelete>>

NextApi ==
    \/ Next
    \/ StopRecordingCall

SpecApi == Init /\ [][NextApi]_vars

----------------------------------------------------------------------------
(* A recording that no one stops, fed calm samples 0.7 s apart, with at     *)
(* most one long pause.                                                     *)

SparseGaps == {7, 100}

CalmEvents(d) == MotionEvents(d) \ {ActiveSample}

SparseMotion(gap, ev) ==
    /\ elapsed + gap <= MaxSparseElapsed
    /\ Motion(gap, ev)

NextSparse ==
    \/ ClickStart
    \/ \E granted \in BOOLEAN : PermissionResolved(granted)
    \/ \E gap \in SparseGaps, ev \in CalmEvents(device) : SparseMotion(gap, ev)

SpecSparse == Init /\ [][NextSparse]_vars

----------------------------------------------------------------------------
(* Stopping a recording in progress whose capture is drawn from streams of  *)
(* three runs of equal samples, sampled every 0.1 s: the inputs of          *)
(* trimToActualThrow.  The first run is short, or reaches past the index    *)
(* the settle scan starts at.                                               *)

LongLead == SettleSkip + PreRoll

\* Magnitudes 0, 1.4, 1.5, 2.0 and 2.1 m/s^2
Levels ==
    {[x |-> 0, y |-> 0, z |-> 0], [x |-> 14, y |-> 0, z |-> 0],
     [x |-> 9, y |-> 12, z |-> 0], [x |-> -12, y |-> 0, z |-> 16],
     [x |-> -21, y |-> 0, z |-> 0]}

Stream(a, i, b, j, c, k) ==
    [n \in 1..(i + j + k) |->
        LET level == IF n <= i THEN a ELSE IF n <= i + j THEN b ELSE c
        IN [x |-> level.x, y |-> level.y, z |-> level.z, t |-> n]]

TrimStreams ==
    {Stream(a, i, b, j, c, k) :
        a \in Levels, b \in Levels, c \in Levels,
        i \in 0..MaxLead \cup {LongLead}, j \in {1, SettleSkip},
        k \in {0, settlePeriod - 1, settlePeriod + MaxTail}}

GyroFor(accel) ==
    [n \in 1..Len(accel) |-> [x |-> 3, y |-> 4, z |-> 0, t |-> accel[n].t]]

InitTrim ==
    /\ isRecording = TRUE
    /\ acceleration \in TrimStreams
    /\ gyroscope = GyroFor(acceleration)
    /\ velocity = <<>>
    /\ autoStopBuffer = <<>>
    /\ lastAutoStopCheck = 0
    /\ handlerActive = TRUE
    /\ staleHandlers = 0
    /\ pendingStarts = 0
    /\ elapsed = Len(acceleration)
    /\ sessionThrows = <<>>
    /\ latestThrow = Null
    /\ currentSession = Null
    /\ saves = 0
    /\ autoStops = 0
    /\ autoStopAt = -1
    /\ lateAppends = 0
    /\ stopCalls = 0
    /\ clicks = 1
    /\ events = Len(acceleration)
    /\ device = "accelerometer and gyroscope"
    /\ lastTrim = NoTrim
    /\ stabilityIndex = <<>>
    /\ throws = <<>>
    /\ summary = NoSummary
    /\ exported = Null
    /\ pageOpen = FALSE
    /\ quickStatsDisplay = "none"
    /\ lastDelete = NoDelete
    /\ storageEvents = 0

NextTrim ==
    \/ ClickStop
    \/ VisibilityHidden

SpecTrim == InitTrim /\ [][NextTrim]_vars

----------------------------------------------------------------------------
(* A recording that has run for 10.0 s without a sample and then receives   *)
(* samples 0.2 s or 0.5 s apart: the inputs of checkAutoStop.               *)

FineGaps == {2, 5}

InitAutoStop ==
    /\ isRecording = TRUE
    /\ acceleration = <<>>
    /\ gyroscope = <<>>
    /\ velocity = <<>>
    /\ autoStopBuffer = <<>>
    /\ lastAutoStopCheck = 0
    /\ handlerActive = TRUE
    /\ staleHandlers = 0
    /\ pendingStarts = 0
    /\ elapsed = GracePeriod
    /\ sessionThrows = <<>>
    /\ latestThrow = Null
    /\ currentSession = Null
    /\ saves = 0
    /\ autoStops = 0
    /\ autoStopAt = -1
    /\ lateAppends = 0
    /\ stopCalls = 0
    /\ clicks = 1
    /\ events = 0
    /\ device = "accelerometer and gyroscope"
    /\ lastTrim = NoTrim
    /\ stabilityIndex = <<>>
    /\ throws = <<>>
    /\ summary = NoSummary
    /\ exported = Null
    /\ pageOpen = FALSE
    /\ quickStatsDisplay = "none"
    /\ lastDelete = NoDelete
    /\ storageEvents = 0

FineMotion(gap, ev) ==
    /\ events < MaxSamples
    /\ Motion(gap, ev)

NextAutoStop ==
    \E gap \in FineGaps, ev \in MotionEvents(device) : FineMotion(gap, ev)

SpecAutoStop == InitAutoStop /\ [][NextAutoStop]_vars

----------------------------------------------------------------------------
(* Stopping a recording in progress whose capture is short enough to pass   *)
(* trimToActualThrow whole: the inputs of calculateAnalysisMetrics.  The    *)
(* captures are short ones over many forward accelerations and pitch rates, *)
(* and longer ones, with a push-off window, over few.                       *)

\* Forward accelerations from -2.1 to 0.7 m/s^2, around 0.5, 1.0 and 2.0
ForwardLevels == {-21, -20, -19, -10, -6, -5, -4, 0, 7}

\* Pitch rates in deg/s
PitchLevels == {0, 5, 800}

MetricAccel ==
    UNION {[1..n -> ForwardLevels] : n \in 1..MaxMetricLen}

MetricGyro(n) == [1..n -> PitchLevels] \cup {<<>>}

\* Forward accelerations of -2.0, -1.0, 0 and 5.0 m/s^2
DecelLevels == {-20, -10, 0, 50}

\* Series of 4 samples (no push-off window) and more
DecelSeries ==
    UNION {[1..n -> DecelLevels] : n \in (PushoffDivisor - 1)..MaxDecelLen}

\* The pitch rates recorded with a series: any for a short one, 0 deg/s
\* throughout for a longer one
GyroWith(xs) ==
    IF Len(xs) <= MaxMetricLen THEN MetricGyro(Len(xs))
    ELSE {[i \in 1..Len(xs) |-> 0]}

InitMetrics ==
    /\ isRecording = TRUE
    /\ \E xs \in MetricAccel \cup DecelSeries :
          /\ acceleration = [i \in 1..Len(xs) |-> [x |-> xs[i], y |-> 0, z |-> 0, t |-> 5 * i]]
          /\ \E ps \in GyroWith(xs) :
                gyroscope = [i \in 1..Len(ps) |-> [x |-> ps[i], y |-> 0, z |-> 0, t |-> 5 * i]]
    /\ velocity = <<>>
    /\ autoStopBuffer = <<>>
    /\ lastAutoStopCheck = 0
    /\ handlerActive = TRUE
    /\ staleHandlers = 0
    /\ pendingStarts = 0
    /\ elapsed = 5 * Len(acceleration)
    /\ sessionThrows = <<>>
    /\ latestThrow = Null
    /\ currentSession = Null
    /\ saves = 0
    /\ autoStops = 0
    /\ autoStopAt = -1
    /\ lateAppends = 0
    /\ stopCalls = 0
    /\ clicks = 1
    /\ events = Len(acceleration)
    /\ device = "accelerometer and gyroscope"
    /\ lastTrim = NoTrim
    /\ stabilityIndex = <<>>
    /\ throws = <<>>
    /\ summary = NoSummary
    /\ exported = Null
    /\ pageOpen = FALSE
    /\ quickStatsDisplay = "none"
    /\ lastDelete = NoDelete
    /\ storageEvents = 0

NextMetrics ==
    \/ ClickStop
    \/ VisibilityHidden

SpecMetrics == InitMetrics /\ [][NextMetrics]_vars

----------------------------------------------------------------------------
(* TrainingSessionAnalyzer, the comparison page (src/unnamed/part_000).     *)
(* Means are exact fractions num/den.  A coefficient of variation is kept   *)
(* in whole percent, rounded down, and the consistency score is computed on *)
(* that grid.                                                               *)

\* t.field || 0 for a number read from JSON: null and 0 give 0
OrZero(v) == IF v = Null THEN 0 ELSE v.val

Mean(values) == [num |-> SeqSum(values), den |-> Len(values)]

\* n^2 * variance = n * sum(v^2) - (sum v)^2
Dispersion(values) ==
    Len(values) * SeqSum([i \in 1..Len(values) |-> values[i] * values[i]])
        - SeqSum(values) * SeqSum(values)

\* calculateCV(values): stdDev / mean * 100 = 100 * sqrt(Dispersion) / sum
CalculateCVRaw(values) ==
    IF Len(values) = 0 \/ SeqSum(values) = 0 THEN 0
    ELSE ISqrt(10000 * Len(values)
                 * SeqSum([i \in 1..Len(values) |-> values[i] * values[i]]))
            \div Abs(SeqSum(values))
CalculateCV(values) ==
    IF Len(values) = 0 THEN 0
    ELSE IF SeqSum(values) = 0 THEN 0
    ELSE IF SeqSum(values) > 0
         THEN ISqrt(10000 * Dispersion(values)) \div SeqSum(values)
         ELSE -((ISqrt(10000 * Dispersion(values)) - SeqSum(values) - 1)
                  \div (-SeqSum(values)))

\* 100 - avgCV * 10 without the Math.max
ConsistencyUnclamped(pushoffCV, velocityCV, stabilityCV) ==
    100 - (CVWeight * (pushoffCV + velocityCV + stabilityCV)) \div 3

\* Math.max(0, 100 - avgCV * 10) with avgCV = (pushoffCV + velocityCV + stabilityCV) / 3
Consistency(pushoffCV, velocityCV, stabilityCV) ==
    Max2(0, 100 - (CVWeight * (pushoffCV + velocityCV + stabilityCV)) \div 3)

\* throws.slice(-3) and throws.slice(0, 3)
RecentThrows(ts) == SubSeq(ts, Max2(1, Len(ts) - TrendWindow + 1), Len(ts))
EarlyThrows(ts) == SubSeq(ts, 1, Min2(TrendWindow, Len(ts)))

\* t.stabilityScore || 0 of each throw
Scores(ts) == [i \in 1..Len(ts) |-> ts[i].stabilityScore]

\* The improvement trend; the means are compared after multiplying out the
\* two window lengths.
ImprovementInclusive(ts) ==
    IF Len(ts) < TrendWindow THEN "Stable"
    ELSE LET r == Scores(RecentThrows(ts))
             e == Scores(EarlyThrows(ts))
         IN IF SeqSum(r) * Len(e) >= SeqSum(e) * Len(r) + TrendMargin * Len(r) * Len(e)
            THEN "Improving"
            ELSE IF SeqSum(r) * Len(e) <= SeqSum(e) * Len(r) - TrendMargin * Len(r) * Len(e)
                 THEN "Declining"
                 ELSE "Stable"
Improvement(ts) ==
    IF Len(ts) < TrendWindow THEN "Stable"
    ELSE LET r == Scores(RecentThrows(ts))
             e == Scores(EarlyThrows(ts))
         IN IF SeqSum(r) * Len(e) > SeqSum(e) * Len(r) + TrendMargin * Len(r) * Len(e)
            THEN "Improving"
            ELSE IF SeqSum(r) * Len(e) < SeqSum(e) * Len(r) - TrendMargin * Len(r) * Len(e)
                 THEN "Declining"
                 ELSE "Stable"

\* bestGlide: the count of 'Excellent' throws, else of 'Very Good' ones
BestGlide(ts) ==
    LET count(label) == Cardinality({i \in 1..Len(ts) : ts[i].glideEfficiency = label})
    IN IF count("Excellent") > 0 THEN [count |-> count("Excellent"), label |-> "Excellent"]
       ELSE IF count("Very Good") > 0 THEN [count |-> count("Very Good"), label |-> "Very Good"]
       ELSE [count |-> 0, label |-> "Good"]

CalculateSessionSummary(ts) ==
    IF Len(ts) = 0 THEN NoSummary
    ELSE LET pushoffs == [i \in 1..Len(ts) |-> OrZero(ts[i].pushoffStrength)]
             velocities == [i \in 1..Len(ts) |-> OrZero(ts[i].peakVelocity)]
             stabilities == Scores(ts)
         IN [kind |-> "summary",
             avgPushoff |-> Mean(pushoffs),
             avgVelocity |-> Mean(velocities),
             avgStability |-> Mean(stabilities),
             bestGlide |-> BestGlide(ts),
             consistency |-> Consistency(CalculateCV(pushoffs), CalculateCV(velocities),
                                         CalculateCV(stabilities)),
             improvement |-> Improvement(ts)]

\* updateQuickStats(): nothing is written for an empty list
UpdateQuickStats(ts, shown) ==
    IF Len(ts) = 0 THEN shown ELSE CalculateSessionSummary(ts)

\* Array.prototype.splice(index): everything from index on is removed
SpliceFrom(ts, index) == SubSeq(ts, 1, index)

\* Array.prototype.splice(index, 1)
Splice(ts, index) == SubSeq(ts, 1, index) \o SubSeq(ts, index + 2, Len(ts))

\* toggleSections(): the quick stats section is displayed iff there is a throw
ToggleSections(ts) == IF Len(ts) > 0 THEN "block" ELSE "none"

\* loadSessionData(), which starts a session when storage holds neither a
\* session nor a throw, then updateUI()
LoadAndUpdate ==
    /\ throws' = sessionThrows
    /\ IF currentSession = Null /\ sessionThrows = <<>>
       THEN /\ currentSession' = [kind |-> "session", id |-> saves + 1]
            /\ latestThrow' = Null
       ELSE UNCHANGED <<currentSession, latestThrow>>
    /\ summary' = UpdateQuickStats(throws', summary)
    /\ quickStatsDisplay' = ToggleSections(throws')

\* new TrainingSessionAnalyzer() on DOMContentLoaded
PageLoad ==
    /\ ~pageOpen
    /\ pageOpen' = TRUE
    /\ LoadAndUpdate
    /\ UNCHANGED <<isRecording, acceleration, gyroscope, velocity, autoStopBuffer,
                   lastAutoStopCheck, handlerActive, staleHandlers, pendingStarts,
                   elapsed, sessionThrows, saves, autoStops, autoStopAt, lateAppends,
                   stopCalls, clicks, events, device, lastTrim, stabilityIndex,
                   exported, lastDelete, storageEvents>>

\* The storage listener of the page, for one queued event of the throw list
StorageEvent ==
    /\ pageOpen
    /\ storageEvents > 0
    /\ storageEvents' = storageEvents - 1
    /\ LoadAndUpdate
    /\ UNCHANGED <<isRecording, acceleration, gyroscope, velocity, autoStopBuffer,
                   lastAutoStopCheck, handlerActive, staleHandlers, pendingStarts,
                   elapsed, sessionThrows, saves, autoStops, autoStopAt, lateAppends,
                   stopCalls, clicks, events, device, lastTrim, stabilityIndex,
                   exported, pageOpen, lastDelete>>

\* The visibilitychange listener of the page when it becomes visible
VisibilityVisible ==
    /\ pageOpen
    /\ LoadAndUpdate
    /\ UNCHANGED <<isRecording, acceleration, gyroscope, velocity, autoStopBuffer,
                   lastAutoStopCheck, handlerActive, staleHandlers, pendingStarts,
                   elapsed, sessionThrows, saves, autoStops, autoStopAt, lateAppends,
                   stopCalls, clicks, events, device, lastTrim, stabilityIndex,
                   exported, pageOpen, lastDelete, storageEvents>>

\* exportSessionData(): the click listener of the export button
ExportSessionData ==
    /\ pageOpen
    /\ currentSession # Null
    /\ exported' = [throws |-> throws, summary |-> CalculateSessionSummary(throws)]
    /\ UNCHANGED <<isRecording, acceleration, gyroscope, velocity, autoStopBuffer,
                   lastAutoStopCheck, handlerActive, staleHandlers, pendingStarts,
                   elapsed, sessionThrows, latestThrow, currentSession, saves,
                   autoStops, autoStopAt, lateAppends, stopCalls, clicks, events,
                   device, lastTrim, stabilityIndex, throws, summary, pageOpen,
                   quickStatsDisplay, lastDelete, storageEvents>>

\* deleteThrow(index), confirmed: splice, saveSessionData, updateUI
DeleteThrow(index) ==
    /\ pageOpen
    /\ index \in 0..(Len(throws) - 1)
    /\ lastDelete' = [index |-> index, before |-> throws]
    /\ throws' = Splice(throws, index)
    /\ sessionThrows' = JsonThrows(throws')
    /\ summary' = UpdateQuickStats(throws', summary)
    /\ quickStatsDisplay' = ToggleSections(throws')
    /\ UNCHANGED <<isRecording, acceleration, gyroscope, velocity, autoStopBuffer,
                   lastAutoStopCheck, handlerActive, staleHandlers, pendingStarts,
                   elapsed, latestThrow, currentSession, saves, autoStops,
                   autoStopAt, lateAppends, stopCalls, clicks, events, device,
                   lastTrim, stabilityIndex, exported, pageOpen, storageEvents>>

\* Stability scores around a difference of 5 between the window means
ScoreLevels == {40, 55, 56}

\* Push-off strengths as stored: null for a non-finite value, or 1.2 m/s^2
PushoffLevels == {Null, Num(12)}

StoredThrow(id, score, pushoff) ==
    [id |-> id, sessionId |-> 0, pushoffStrength |-> pushoff,
     peakVelocity |-> Num(30), slideDuration |-> 20,
     decelRate |-> [num |-> 10, den |-> 1], stabilityScore |-> score,
     glideEfficiency |-> "Good"]

\* The push-off strengths of n throws: the same in each, or null in all but
\* the first
PushoffSeries(n) ==
    {[i \in 1..n |-> p] : p \in PushoffLevels}
        \cup {[i \in 1..n |-> IF i = 1 THEN Num(12) ELSE Null]}

StoredThrows ==
    UNION {{[i \in 1..n |-> StoredThrow(i, scores[i], pushoffs[i])] :
               scores \in [1..n -> ScoreLevels], pushoffs \in PushoffSeries(n)} :
           n \in 0..MaxThrows}

\* The comparison page is opened on a session the main page has stored.
InitSession ==
    /\ isRecording = FALSE
    /\ acceleration = <<>>
    /\ gyroscope = <<>>
    /\ velocity = <<>>
    /\ autoStopBuffer = <<>>
    /\ lastAutoStopCheck = 0
    /\ handlerActive = FALSE
    /\ staleHandlers = 0
    /\ pendingStarts = 0
    /\ elapsed = 0
    /\ sessionThrows \in StoredThrows
    /\ latestThrow = IF sessionThrows = <<>> THEN Null ELSE sessionThrows[Len(sessionThrows)]
    /\ currentSession = IF sessionThrows = <<>> THEN Null ELSE [kind |-> "session", id |-> 0]
    /\ saves = Len(sessionThrows)
    /\ autoStops = 0
    /\ autoStopAt = -1
    /\ lateAppends = 0
    /\ stopCalls = 0
    /\ clicks = 0
    /\ events = 0
    /\ device = "accelerometer and gyroscope"
    /\ lastTrim = NoTrim
    /\ stabilityIndex = <<>>
    /\ throws = <<>>
    /\ summary = NoSummary
    /\ exported = Null
    /\ pageOpen = FALSE
    /\ quickStatsDisplay = "none"
    /\ lastDelete = NoDelete
    /\ storageEvents = 0

NextSession ==
    \/ PageLoad
    \/ ExportSessionData
    \/ \E index \in 0..(MaxThrows - 1) : DeleteThrow(index)

SpecSession == InitSession /\ [][NextSession]_vars

----------------------------------------------------------------------------
(* The two pages on one localStorage: a recording in progress on the main   *)
(* page, which a stop will save, while the comparison page is opened, is    *)
(* told of changes to the throw list and deletes throws.                    *)

InitShared ==
    /\ isRecording = TRUE
    /\ acceleration = <<[x |-> -10, y |-> 0, z |-> 0, t |-> 5]>>
    /\ gyroscope = <<[x |-> 3, y |-> 4, z |-> 1, t |-> 5]>>
    /\ velocity = <<>>
    /\ autoStopBuffer = <<>>
    /\ lastAutoStopCheck = 0
    /\ handlerActive = TRUE
    /\ staleHandlers = 0
    /\ pendingStarts = 0
    /\ elapsed = 5
    /\ sessionThrows \in StoredThrows
    /\ latestThrow = IF sessionThrows = <<>> THEN Null ELSE sessionThrows[Len(sessionThrows)]
    /\ currentSession = IF sessionThrows = <<>> THEN Null ELSE [kind |-> "session", id |-> 0]
    /\ saves = Len(sessionThrows)
    /\ autoStops = 0
    /\ autoStopAt = -1
    /\ lateAppends = 0
    /\ stopCalls = 0
    /\ clicks = 1
    /\ events = 1
    /\ device = "accelerometer and gyroscope"
    /\ lastTrim = NoTrim
    /\ stabilityIndex = <<>>
    /\ throws = <<>>
    /\ summary = NoSummary
    /\ exported = Null
    /\ pageOpen = FALSE
    /\ quickStatsDisplay = "none"
    /\ lastDelete = NoDelete
    /\ storageEvents = 0

NextShared ==
    \/ ClickStop
    \/ VisibilityHidden
    \/ PageLoad
    \/ StorageEvent
    \/ VisibilityVisible
    \/ \E index \in 0..MaxThrows : DeleteThrow(index)

SpecShared == InitShared /\ [][NextShared]_vars

----------------------------------------------------------------------------
(* Properties of the recording lifecycle *)

\* A step that delivers one devicemotion event
MotionStep == events' = events + 1

\* A step in which stopRecording ends the recording
StopStep == isRecording /\ ~isRecording'

IsFinite(v) == v.kind = "num"

\* C1: within one recording the auto-stop signal is emitted at most once:
\* once it has fired, no later devicemotion event of that recording emits it
\* again, calls stopRecording again or saves another record.
C1_AutoStopOnce ==
    /\ [](autoStops <= 1)
    /\ [][(autoStops = 1 /\ MotionStep) =>
            (autoStops' = 1 /\ stopCalls' = stopCalls /\ saves' = saves)]_vars

\* Auto-stop has fired and a later event reached a listener that is still
\* registered.
C1_Witness ==
    /\ autoStops = 1
    /\ ~isRecording
    /\ staleHandlers > 0
    /\ elapsed > autoStopAt

\* C2: no auto-stop signal is emitted while processing an acceleration sample
\* whose timestamp is <= 10.0 s, and a recording that receives such a sample
\* is still recording after it.
C2_GracePeriod ==
    /\ [](autoStopAt = -1 \/ autoStopAt > GracePeriod)
    /\ [][(isRecording /\ MotionStep /\ elapsed' <= GracePeriod) => isRecording']_vars

\* Six or more calm samples, 3.0 s of them, inside the grace period and the
\* recording goes on.
C2_Witness ==
    /\ isRecording
    /\ elapsed <= GracePeriod
    /\ Len(acceleration) >= 6
    /\ \A i \in 1..Len(acceleration) : MagSq(acceleration[i]) < 225
    /\ acceleration[Len(acceleration)].t - acceleration[1].t >= autoStopDuration

\* C5: once stopRecording has run, no sample is appended to the acceleration
\* or angular-rate stream until the next startRecording, the rest of the
\* event in which auto-stop fired included.
C5_FrozenAtStop == lateAppends = 0

\* C6: at most one devicemotion handler is registered during a recording, and
\* one sensor event adds at most one acceleration sample and at most one
\* angular-rate sample to the capture.
C6_SingleProducer ==
    /\ [](isRecording => Listeners(World) <= 1)
    /\ [][MotionStep => /\ Len(acceleration') <= Len(acceleration) + 1
                        /\ Len(gyroscope') <= Len(gyroscope) + 1]_vars

\* C7: a stop that processes a capture with no acceleration sample appends
\* no record to the throw list and writes no latest throw.
C7_NoDataNotPersisted ==
    [][(StopStep /\ acceleration = <<>> /\ acceleration' = <<>>) =>
         (sessionThrows' = sessionThrows /\ latestThrow' = latestThrow)]_vars

\* C8: the numeric fields of every persisted throw record are finite.
C8_FiniteMetrics ==
    /\ \A i \in 1..Len(sessionThrows) :
          /\ IsFinite(sessionThrows[i].pushoffStrength)
          /\ IsFinite(sessionThrows[i].peakVelocity)
          /\ sessionThrows[i].slideDuration \in Int
          /\ sessionThrows[i].decelRate.den > 0
          /\ sessionThrows[i].stabilityScore \in Int
    /\ latestThrow # Null =>
          IsFinite(latestThrow.pushoffStrength) /\ IsFinite(latestThrow.peakVelocity)

C4_StopIdempotent ==
    [][(~isRecording /\ stopCalls >= 1 /\ stopCalls' = stopCalls + 1) =>
         /\ acceleration' = acceleration
         /\ gyroscope' = gyroscope
         /\ velocity' = velocity
         /\ sessionThrows' = sessionThrows]_vars

\* The positions of the samples taken after the grace period
PastGrace(accel) == {i \in 1..Len(accel) : accel[i].t > GracePeriod}

\* Calm acceleration samples have kept arriving, at most 1.0 s apart, for
\* twice autoStopDuration after the grace period, up to now.
SustainedCalm ==
    /\ PastGrace(acceleration) # {}
    /\ acceleration[Len(acceleration)].t = elapsed
    /\ \E i \in PastGrace(acceleration) :
          elapsed - acceleration[i].t >= 2 * autoStopDuration
    /\ \A i \in 1..Len(acceleration) : MagSq(acceleration[i]) < 225
    /\ \A i \in PastGrace(acceleration) :
          i > 1 => /\ acceleration[i - 1].t <= acceleration[i].t
                   /\ (acceleration[i - 1].t > GracePeriod =>
                         acceleration[i].t - acceleration[i - 1].t <= 10)

\* C3, as a property of finite runs: a recording in which calm acceleration
\* samples keep arriving after the grace period, at whatever spacing, has
\* been stopped by the auto-stop signal by the time they have done so for
\* twice autoStopDuration.
C3_AutoStopEventually == ~(isRecording /\ SustainedCalm)

----------------------------------------------------------------------------
(* Properties of trimToActualThrow *)

\* The 1-based positions of lastTrim's raw stream that are the first to exceed
\* 2.0 m/s^2 in magnitude.
FirstOver(raw) ==
    {i \in 1..Len(raw) :
        /\ MagSq(raw[i]) > 400
        /\ \A j \in 1..(i - 1) : MagSq(raw[j]) <= 400}

\* C10: startIndex = max(0, i - 5) for the first index i whose magnitude is
\* strictly greater than 2.0, and startIndex = 0 when no sample is (a sample
\* of exactly 2.0 does not count).
C10_StartDetection ==
    lastTrim # NoTrim =>
        LET raw == lastTrim.acceleration
        IN IF FirstOver(raw) = {}
           THEN lastTrim.startIndex = 0
           ELSE \A i \in FirstOver(raw) :
                   lastTrim.startIndex = (IF i - 1 - 5 > 0 THEN i - 1 - 5 ELSE 0)

\* A stream that opens with samples of exactly 2.0 m/s^2 and exceeds it only
\* from index 7 on was trimmed at startIndex 2.
C10_Witness ==
    /\ lastTrim # NoTrim
    /\ MagSq(lastTrim.acceleration[1]) = 400
    /\ FirstOver(lastTrim.acceleration) = {8}
    /\ lastTrim.startIndex = 2
    /\ acceleration[1].t = 0

\* C11: the indices computed for a non-empty stream of length n satisfy
\* 0 <= startIndex <= endIndex <= n - 1, and the trimmed acceleration series
\* is the non-empty slice between them.
C11_TrimIndexRange ==
    lastTrim # NoTrim =>
        /\ 0 <= lastTrim.startIndex
        /\ lastTrim.startIndex <= lastTrim.endIndex
        /\ lastTrim.endIndex <= Len(lastTrim.acceleration) - 1
        /\ Len(acceleration) = lastTrim.endIndex - lastTrim.startIndex + 1

\* A stream trimmed at both ends: the start moved past index 0 and the settle
\* scan ended before the last sample.
C11_Witness ==
    /\ lastTrim # NoTrim
    /\ lastTrim.startIndex > 0
    /\ lastTrim.endIndex < Len(lastTrim.acceleration) - 1

\* The 0-based indices c at which a run of 20 samples of magnitude < 1.5,
\* all at or after index from, is complete
SettleHits(raw, from) ==
    {c \in from..(Len(raw) - 1) :
        /\ c - 19 >= from
        /\ \A j \in (c - 19)..c : MagSq(raw[j + 1]) < 225}

\* C24: the settle scan starts at startIndex + 30 and counts consecutive
\* samples of magnitude strictly below 1.5, a sample of 1.5 or more ending
\* the run; endIndex = c - 10 for the first index c that completes a run of
\* 20, and the last index of the stream when no run of 20 is completed, the
\* scan starting past the end included.
C24_EndDetection ==
    lastTrim # NoTrim =>
        LET raw == lastTrim.acceleration
            hits == SettleHits(raw, lastTrim.startIndex + 30)
        IN IF hits = {}
           THEN lastTrim.endIndex = Len(raw) - 1
           ELSE lastTrim.endIndex = SetMin(hits) - 10

\* A scan that met calm samples, then one of exactly 1.5 m/s^2, and only
\* then a run of 20: the end lies 10 before the sample completing that run.
C24_Witness ==
    /\ lastTrim # NoTrim
    /\ Len(lastTrim.acceleration) > 56
    /\ lastTrim.startIndex = 0
    /\ MagSq(lastTrim.acceleration[31]) < 225
    /\ MagSq(lastTrim.acceleration[36]) = 225
    /\ lastTrim.endIndex = 45

\* C12: after a stop has processed a capture, the first retained acceleration
\* timestamp is 0, every retained acceleration timestamp is its raw timestamp
\* minus the raw timestamp at startIndex, and every angular-rate sample of the
\* capture is the raw sample of an index in startIndex..endIndex shifted by
\* that offset.
C12_TrimPostCondition ==
    (~isRecording /\ stopCalls >= 1 /\ lastTrim # NoTrim /\ Len(acceleration) > 0) =>
        LET first == lastTrim.startIndex
            offset == lastTrim.acceleration[first + 1].t
        IN /\ acceleration[1].t = 0
           /\ \A k \in 1..Len(acceleration) :
                 acceleration[k].t = lastTrim.acceleration[first + k].t - offset
           /\ Len(gyroscope) <= lastTrim.endIndex - first + 1
           /\ \A k \in 1..Len(gyroscope) :
                 /\ first + k <= Len(lastTrim.gyroscope)
                 /\ gyroscope[k] =
                       [lastTrim.gyroscope[first + k] EXCEPT !.t = @ - offset]

----------------------------------------------------------------------------
(* Properties of calculateVelocity *)

\* A stop has processed the capture the analyzer holds
Processed == ~isRecording /\ stopCalls >= 1 /\ (acceleration # <<>> \/ gyroscope # <<>>)

\* C13: after processData the velocity series is as long as the trimmed
\* acceleration series and starts at 0, a capture with angular rates only
\* included.
C13_VelocityLength ==
    Processed => (Len(velocity) = Len(acceleration) /\ velocity[1].x = 0)

\* The acceleration series has one forward value and one spacing throughout
Uniform(accel) ==
    /\ \A i \in 1..Len(accel) : accel[i].x = accel[1].x
    /\ \A i \in 2..Len(accel) : accel[i].t - accel[i - 1].t = accel[2].t - accel[1].t

----------------------------------------------------------------------------
(* Properties of calculateStabilityIndex *)

\* The elements of a sequence
Range(q) == {q[k] : k \in 1..Len(q)}

\* C15: the stability index has one non-negative value per angular-rate
\* sample, and the window read for the 0-based index i is exactly the indices
\* j with max(0, i - 2) <= j <= min(n - 1, i + 2), each read once: between 1
\* and 5 of them, none outside 0..n-1.
C15_StabilityWindow ==
    Processed =>
        LET n == Len(gyroscope)
        IN /\ Len(stabilityIndex) = n
           /\ \A i \in 0..(n - 1) :
                 LET e == stabilityIndex[i + 1]
                 IN /\ Range(e.read) =
                          {j \in 0..(n - 1) : Max2(0, i - 2) <= j /\ j <= Min2(n - 1, i + 2)}
                    /\ Cardinality(Range(e.read)) = Len(e.read)
                    /\ e.count = Len(e.read)
                    /\ e.count >= 1 /\ e.count <= 5
                    /\ e.rmsSum >= 0

\* A series long enough for a full window of 5 in the middle and windows of 3
\* at both ends.
C15_Witness ==
    /\ Processed
    /\ Len(stabilityIndex) >= 6
    /\ stabilityIndex[1].count = 3
    /\ stabilityIndex[3].count = 5
    /\ stabilityIndex[Len(stabilityIndex)].read[3] = Len(gyroscope) - 1

----------------------------------------------------------------------------
(* Properties of calculateAnalysisMetrics *)

\* C16: the stabilityScore of every throw record lies in 0..100, whatever the
\* angular-rate series: an empty one and one of very large variance included.
C16_StabilityScoreRange ==
    \A i \in 1..Len(sessionThrows) :
        /\ sessionThrows[i].stabilityScore >= 0
        /\ sessionThrows[i].stabilityScore <= 100

\* A capture whose pitch rates jump between 0 and 800 deg/s, a variance above
\* 10^5, was saved with the score 0.
C16_Witness ==
    /\ Len(sessionThrows) = 1
    /\ sessionThrows[1].stabilityScore = 0
    /\ Len(gyroscope) = 2
    /\ gyroscope[1].x = 0
    /\ gyroscope[2].x = 800

\* The label the thresholds 0.5, 1.0 and 2.0 m/s^2 give to d = num / den (in
\* 0.1 m/s^2)
LabelOf(d) ==
    {l \in {"Poor (High Drag)", "Excellent", "Very Good", "Good"} :
        \/ l = "Poor (High Drag)" /\ d.num > 20 * d.den
        \/ l = "Excellent" /\ d.num < 5 * d.den
        \/ l = "Very Good" /\ 5 * d.den <= d.num /\ d.num < 10 * d.den
        \/ l = "Good" /\ 10 * d.den <= d.num /\ d.num <= 20 * d.den}

\* C17: the glideEfficiency of every throw record is the one label of its own
\* decelRate d: d > 2.0 'Poor (High Drag)', d < 0.5 'Excellent',
\* 0.5 <= d < 1.0 'Very Good', 1.0 <= d <= 2.0 'Good'.
C17_GlideLabels ==
    \A i \in 1..Len(sessionThrows) :
        /\ sessionThrows[i].decelRate.den > 0
        /\ LabelOf(sessionThrows[i].decelRate) = {sessionThrows[i].glideEfficiency}
        /\ latestThrow.glideEfficiency = sessionThrows[Len(sessionThrows)].glideEfficiency

\* A delivery with a deceleration of exactly 0.5 m/s^2 was saved as 'Very Good'.
C17_Witness ==
    /\ Len(sessionThrows) = 1
    /\ sessionThrows[1].decelRate.num = 5 * sessionThrows[1].decelRate.den
    /\ sessionThrows[1].glideEfficiency = "Very Good"

\* The forward accelerations of the series, each replaced by 0 unless it is
\* negative and at a 0-based index >= from
SlideNegatives(accel, from) ==
    [i \in 1..Len(accel) |->
        IF i - 1 >= from /\ accel[i].x < 0 THEN accel[i].x ELSE 0]

\* C27: decelRate is the absolute value of the mean of the forward
\* accelerations that are strictly negative and at an index >= floor(0.2 * n)
\* of the trimmed series of length n, and 0 when there is none; the series
\* 5, 5, -1, -2, -1 m/s^2 gives 4/3.
C27_DecelRate ==
    (Processed /\ acceleration # <<>> /\ Len(sessionThrows) = 1) =>
        LET n == Len(acceleration)
            from == CHOOSE k \in 0..n : 5 * k <= n /\ n < 5 * (k + 1)
            taken == {i \in 1..n : i - 1 >= from /\ acceleration[i].x < 0}
            d == sessionThrows[1].decelRate
        IN /\ d.den > 0
           /\ d.num >= 0
           /\ IF taken = {} THEN d.num = 0
              ELSE d.num * Cardinality(taken) =
                      d.den * (-SeqSum(SlideNegatives(acceleration, from)))
           /\ Xs(acceleration) = <<50, 50, -10, -20, -10>> => d.num * 3 = d.den * 40

\* The capture 5, 5, -1, -2, -1 m/s^2 was saved with decelRate 4/3 m/s^2.
C27_Witness ==
    /\ Processed
    /\ Len(sessionThrows) = 1
    /\ Xs(acceleration) = <<50, 50, -10, -20, -10>>
    /\ sessionThrows[1].decelRate = [num |-> 40, den |-> 3]

----------------------------------------------------------------------------
(* Properties of calculateSessionSummary *)

\* The summaries the page has produced, each with the throw list it was
\* computed from: the quick stats on screen and the last export.
Summaries ==
    (IF pageOpen /\ Len(throws) > 0
     THEN {[throws |-> throws, summary |-> summary]} ELSE {})
    \cup (IF exported # Null THEN {exported} ELSE {})

\* Three times the mean stabilityScore of the entries from..to
ScoreSum(ts, from, to) == SeqSum([k \in 1..(to - from + 1) |-> ts[from + k - 1].stabilityScore])

\* C18: for a throw list of length >= 3, improvement is 'Improving' iff the
\* mean stabilityScore of the last 3 entries is above that of the first 3 by
\* more than 5, 'Declining' iff it is below it by more than 5, 'Stable'
\* otherwise; a list of exactly 3 is 'Stable'.
C18_Improvement ==
    \A s \in Summaries :
        Len(s.throws) >= 3 =>
            LET n == Len(s.throws)
                recent == ScoreSum(s.throws, n - 2, n)
                early == ScoreSum(s.throws, 1, 3)
            IN /\ s.summary.improvement = "Improving" <=> recent > early + 15
               /\ s.summary.improvement = "Declining" <=> recent < early - 15
               /\ s.summary.improvement = "Stable" <=>
                     (recent <= early + 15 /\ recent >= early - 15)
               /\ n = 3 => s.summary.improvement = "Stable"

\* Four throws whose last score is 16 above the first are shown as
\* 'Improving'.
C18_Witness ==
    /\ pageOpen
    /\ Len(throws) = 4
    /\ throws[4].stabilityScore = throws[1].stabilityScore + 16
    /\ summary.improvement = "Improving"

\* C19: the summary of a throw list of fewer than 3 entries, the empty list
\* included, has the improvement 'Stable'.
C19_FewThrowsStable ==
    \A s \in Summaries :
        Len(s.throws) < 3 =>
            (s.summary.kind = "summary" /\ s.summary.improvement = "Stable")

\* The stored values of one field are the same in every throw
Constant(ts) ==
    \A i \in 1..Len(ts) :
        /\ ts[i].pushoffStrength = ts[1].pushoffStrength
        /\ ts[i].peakVelocity = ts[1].peakVelocity
        /\ ts[i].stabilityScore = ts[1].stabilityScore

\* C20: for a non-empty throw list whose pushoffStrength, peakVelocity and
\* stabilityScore are each constant, consistency = 100.
C20_ConstantConsistency ==
    \A s \in Summaries :
        (Len(s.throws) > 0 /\ Constant(s.throws)) => s.summary.consistency = 100

\* Three throws with the same non-zero values are shown with consistency 100.
C20_Witness ==
    /\ pageOpen
    /\ Len(throws) = 3
    /\ Constant(throws)
    /\ throws[1].pushoffStrength = Num(12)
    /\ summary.consistency = 100

\* The values of the three fields are all 0 or more, null read as 0
NonNegative(ts) ==
    \A i \in 1..Len(ts) :
        /\ OrZero(ts[i].pushoffStrength) >= 0
        /\ OrZero(ts[i].peakVelocity) >= 0
        /\ ts[i].stabilityScore >= 0

\* C30: for a non-empty throw list whose pushoffStrength, peakVelocity and
\* stabilityScore are all non-negative, null fields read as 0, the
\* consistency of the summary lies in 0..100.
C30_ConsistencyRange ==
    \A s \in Summaries :
        (Len(s.throws) > 0 /\ NonNegative(s.throws)) =>
            /\ s.summary.consistency >= 0
            /\ s.summary.consistency <= 100

\* Push-off strengths of 1.2, null and null, a coefficient of variation
\* above 100 %, are shown with consistency 0.
C30_Witness ==
    /\ pageOpen
    /\ Len(throws) = 3
    /\ throws[1].pushoffStrength = Num(12)
    /\ throws[2].pushoffStrength = Null
    /\ throws[3].pushoffStrength = Null
    /\ summary.consistency = 0

----------------------------------------------------------------------------
(* Properties of deleteThrow *)

\* A step in which a confirmed deleteThrow ran
DeleteStep == lastDelete' # lastDelete

\* The summary the page presents: the quick stats while their section is
\* displayed, nothing while it is hidden
Presented == IF quickStatsDisplay = "block" THEN summary ELSE NoSummary

\* C22: after a confirmed deleteThrow(index) the throw list is the previous
\* list without the entry at index, the others in their order; the stored
\* list equals it; and the summary presented is the one computed from the
\* remaining list, with nothing of the deleted entry in it: no summary at all
\* when the list is left empty.
C22_DeleteRecomputes ==
    [][DeleteStep =>
         LET i == lastDelete'.index
         IN /\ lastDelete'.before = throws
            /\ i >= 0 /\ i < Len(throws)
            /\ Len(throws') = Len(throws) - 1
            /\ \A k \in 1..Len(throws') :
                  throws'[k] = throws[IF k <= i THEN k ELSE k + 1]
            /\ sessionThrows' = throws'
            /\ Presented' = CalculateSessionSummary(throws')
            /\ Len(throws') > 0 =>
                  /\ Presented'.avgStability =
                        [num |-> ScoreSum(throws', 1, Len(throws')), den |-> Len(throws')]
                  /\ Presented'.avgPushoff.den = Len(throws')
                  /\ Presented'.avgVelocity.den = Len(throws')
            /\ Len(throws') = 0 => Presented' = NoSummary]_vars

\* The only throw was deleted: the quick stats keep the text written for it,
\* and their section is hidden.
C22_Witness ==
    /\ pageOpen
    /\ lastDelete.index = 0
    /\ Len(lastDelete.before) = 1
    /\ throws = <<>>
    /\ sessionThrows = <<>>
    /\ summary # NoSummary
    /\ quickStatsDisplay = "none"

----------------------------------------------------------------------------
(* Properties of the numeric reductions *)

\* The values calculateSessionSummary reduces for one field of a throw list
Pushoffs(ts) == [i \in 1..Len(ts) |-> OrZero(ts[i].pushoffStrength)]

\* C23: every reduction yields 0 where it would divide by zero: the summary
\* of an empty throw list has avgPushoff, avgVelocity and avgStability 0,
\* calculateCV is 0 for an empty series and for a series of mean 0, and
\* calculateVariance is 0 for an empty series.
C23_ZeroGuards ==
    /\ CalculateCV(<<>>) = 0
    /\ CalculateVariance(<<>>).num = 0
    /\ \A s \in Summaries :
          /\ SeqSum(Pushoffs(s.throws)) = 0 => CalculateCV(Pushoffs(s.throws)) = 0
          /\ Len(s.throws) = 0 =>
                /\ s.summary.kind = "summary"
                /\ s.summary.avgPushoff.num = 0
                /\ s.summary.avgVelocity.num = 0
                /\ s.summary.avgStability.num = 0

----------------------------------------------------------------------------
(* Properties of checkAutoStop *)

\* A step whose devicemotion event ran checkAutoStop
CheckStep == MotionStep /\ lastAutoStopCheck' # lastAutoStopCheck

\* C25: a check at time t first appends its own entry and drops the entries
\* with t - timestamp > 3.0; it emits the signal iff 6 or more entries remain
\* and each has magnitude strictly below 1.5; no signal is emitted without a
\* check; and a check comes 0.5 s or more after the check before it.
C25_CheckRule ==
    [][MotionStep =>
         IF CheckStep
         THEN LET t == lastAutoStopCheck'
                  buffer == autoStopBuffer'
                  dropped == {k \in 1..Len(autoStopBuffer) :
                                 t - autoStopBuffer[k].timestamp > 30}
              IN /\ t = elapsed'
                 /\ t > 100
                 /\ t - lastAutoStopCheck >= 5
                 /\ Len(buffer) = Len(autoStopBuffer) - Cardinality(dropped) + 1
                 /\ buffer[Len(buffer)].timestamp = t
                 /\ \A k \in 1..(Len(buffer) - 1) :
                       /\ buffer[k] = autoStopBuffer[k + Cardinality(dropped)]
                       /\ t - buffer[k].timestamp <= 30
                 /\ autoStops' = autoStops + 1 <=>
                       (Len(buffer) >= 6 /\ \A k \in 1..Len(buffer) :
                                               buffer[k].acceleration < 225)
                 /\ autoStops' \in {autoStops, autoStops + 1}
                 /\ autoStops' = autoStops + 1 <=> ~isRecording'
         ELSE autoStops' = autoStops /\ autoStopBuffer' = autoStopBuffer]_vars

\* The first sample, of 3.0 m/s^2, was checked and buffered; the signal was
\* emitted by a later check that found it older than 3.0 s and six calm
\* entries left.
C25_Witness ==
    /\ autoStops = 1
    /\ Len(autoStopBuffer) = 6
    /\ MagSq(lastTrim.acceleration[1]) >= 225
    /\ autoStopAt - lastTrim.acceleration[1].t > 30


\* C26: the buffer holds an entry for every acceleration sample of the last
\* 3.0 s before a check, so that the signal is emitted only when every sample
\* received in the 3.0 s before it has magnitude below 1.5: one sample of 1.5
\* or more in that window prevents it.
C26_EverySampleCounts ==
    /\ isRecording =>
          \A i \in 1..Len(acceleration) :
              (/\ acceleration[i].t <= lastAutoStopCheck
               /\ lastAutoStopCheck - acceleration[i].t <= 30) =>
                  \E k \in 1..Len(autoStopBuffer) :
                      autoStopBuffer[k].timestamp = acceleration[i].t
    /\ autoStops = 1 =>
          \A i \in 1..Len(lastTrim.acceleration) :
              autoStopAt - lastTrim.acceleration[i].t <= 30 =>
                  MagSq(lastTrim.acceleration[i]) < 225


\* C28: no auto-stop signal is emitted at a sample timestamp of 12.5 s or
\* less: the buffer of a recording holds only entries of its own samples,
\* taken after 10.0 s and 0.5 s or more apart, and six are needed.  A new
\* recording starts with an empty buffer, so that no entry of an earlier
\* recording is counted.
C28_NoEarlySignal ==
    /\ autoStopAt = -1 \/ autoStopAt > 125
    /\ (isRecording /\ elapsed <= 100) => autoStopBuffer = <<>>
    /\ isRecording =>
          \A k \in 1..Len(autoStopBuffer) :
              /\ autoStopBuffer[k].timestamp > 100
              /\ autoStopBuffer[k].timestamp <= elapsed
              /\ \E i \in 1..Len(acceleration) :
                    /\ acceleration[i].t = autoStopBuffer[k].timestamp
                    /\ MagSq(acceleration[i]) = autoStopBuffer[k].acceleration
              /\ k > 1 => autoStopBuffer[k].timestamp
                             - autoStopBuffer[k - 1].timestamp >= 5

\* A second recording, started after a first one that had buffered an entry,
\* was stopped by the signal at 13.0 s.
C28_Witness ==
    /\ saves = 2
    /\ autoStops = 1
    /\ autoStopAt = 130
    /\ Len(autoStopBuffer) = 6
    /\ ~isRecording

----------------------------------------------------------------------------
(* Properties of the throw list shared by the two pages *)

\* The ids of the throws in a list
Ids(ts) == {ts[k].id : k \in 1..Len(ts)}

\* C29: no update of the stored throw list is lost between the pages: in
\* every step, whatever the order of saves, storage events, reloads and
\* deletions, a throw in 'curling_session_throws' stays there unless the
\* step is the deletion of that throw.
C29_NoLostUpdate ==
    [][\A id \in Ids(sessionThrows) :
          \/ id \in Ids(sessionThrows')
          \/ /\ DeleteStep
             /\ lastDelete'.before[lastDelete'.index + 1].id = id]_vars

=============================================================================
